---- MODULE Spec2Model ----
(***************************************************************************)
(* Local search on a symmetric TSP tour (VROOM): the successor-array tour  *)
(* `_edges`, its construction and the two partition tables, the three      *)
(* neighbourhood operators (2-opt, relocate, or-opt) and the driver loop   *)
(* of solve_symmetric_tsp.                                                 *)
(*                                                                         *)
(* Vectors are functions over 0..size-1, as the code indexes them.         *)
(* The cost matrix is the one of matrix.h: rounded euclidean distances     *)
(* between the stored locations, with a sentinel diagonal.                 *)
(***************************************************************************)
EXTENDS Integers, Sequences, FiniteSets, TLC

VARIABLES
  locations,                 \* matrix<T>::_locations, a sequence of <<x, y>>
  _matrix,                   \* local_search::_matrix, as the table of its entries
  tour,                      \* the constructor's `tour` argument
  nb_threads,                \* the constructor's `nb_threads` argument
  pc,                        \* where the program is
  _edges,                    \* local_search::_edges
  _nb_threads,               \* local_search::_nb_threads
  _rank_limits,              \* local_search::_rank_limits
  _sym_two_opt_rank_limits,  \* local_search::_sym_two_opt_rank_limits
  op,                        \* the step that ran last ("none" before any)
  gain,                      \* the value that step returned
  old_edges,                 \* _edges as that step found it
  nb_reads,                  \* how many _edges.at() reads that step made
  move_edge_1_start,         \* best_edge_1_start and best_edge_2_start of that
  move_edge_2_start,         \* step after its reduction
  total_gain,                \* total_gain of the running perform_all_* loop
  sym_two_opt_gain,          \* solve_symmetric_tsp's three round gains
  sym_relocate_gain,
  sym_or_opt_gain,
  run,                       \* 1 in the driver's first run, 2 in a second one
  rounds,                    \* rounds of the driver's do-while completed in this
                             \* run, counted up to MaxRounds
  run_gain,                  \* the gains of all steps of this run together
  first_output,              \* _edges at the end of the first driver run
  running,                   \* the step whose threads are running, or "none"
  threads_size,              \* threads.size() in the running step
  joined,                    \* how many of them the main thread has joined
  at_row,                    \* per look_up: its edge_1_start
  best_vectors,              \* best_gains, best_edge_1_starts and
                             \* best_edge_2_starts of the running step, slot
                             \* by slot
  first_index,               \* the argument of the last get_tour call
  got_tour                   \* the list the last get_tour call returned

vars == <<locations, _matrix, tour, nb_threads, pc, _edges, _nb_threads, _rank_limits,
          _sym_two_opt_rank_limits, op, gain, old_edges, nb_reads, move_edge_1_start,
          move_edge_2_start, total_gain,
          sym_two_opt_gain, sym_relocate_gain, sym_or_opt_gain, run, rounds,
          run_gain, first_output, running, threads_size, joined,
          at_row,
          best_vectors, first_index, got_tour>>

\* What construction fixes for the life of the search.
search_vars == <<locations, _matrix, tour, nb_threads, _nb_threads,
                 _rank_limits, _sym_two_opt_rank_limits>>

\* What only get_tour changes.
tour_vars == <<first_index, got_tour>>

\* What only a step does, while its threads run.
thread_vars == <<running, threads_size, joined, at_row, best_vectors>>

\* What only the driver changes.
driver_vars == <<total_gain, sym_two_opt_gain, sym_relocate_gain,
                 sym_or_opt_gain, run, rounds, run_gain, first_output>>

----------------------------------------------------------------------------
(* Bounds of the model. *)

\* Largest number of locations (matrix size N).
MaxN == 6

\* Largest coordinates of a location; locations lie on the integer grid
\* (0..MaxX) \X (0..MaxY).
MaxX == 2

MaxY == 1

\* The rounds of the driver are counted up to MaxRounds.
MaxRounds == 4

\* Largest matrix size the constructor is called with on arbitrary tours.
MaxCtorN == 3

----------------------------------------------------------------------------
(* Integer widths.  TLC evaluates with 32-bit signed integers, so the      *)
(* unsigned types of the code are kept as wrap-around types of reduced     *)
(* width: 15 bits for `unsigned` and distance_t, 30 bits for std::size_t.  *)
(* Every value the code computes without wrapping is far below 2^15 here;  *)
(* what wraps in the code (size() - 3 for size() < 3) wraps here too.      *)

unsigned_mod == 32768

size_t_mod == 1073741824

\* std::numeric_limits<distance_t>::max()
distance_max == 32767

distance_mod == distance_max + 1

Min(a, b) == IF a < b THEN a ELSE b

\* The largest element of a non-empty set of integers.
Largest(S) == CHOOSE m \in S : \A x \in S : x <= m

----------------------------------------------------------------------------
(* matrix.h *)

\* Mutant of RoundedSqrt: the distance is rounded up.
CeilSqrt(s) ==
  CHOOSE r \in 0..s : r * r >= s /\ (r = 0 \/ (r - 1) * (r - 1) < s)

\* (int) (sqrt(s) + 0.5) for an integer s >= 0: r with r - 1/2 <= sqrt(s) < r + 1/2.
RoundedSqrt(s) ==
  CHOOSE r \in 0..s :
    /\ (r = 0 \/ (2 * r - 1) * (2 * r - 1) <= 4 * s)
    /\ 4 * s < (2 * r + 1) * (2 * r + 1)

\* Mutant of MatrixOf: going to a smaller index costs one more, so the
\* matrix is not symmetric.
MatrixOfOneWay(locs, row, index) ==
  IF row = index
  THEN 3 * (distance_max \div 4)
  ELSE LET dx == locs[row + 1][1] - locs[index + 1][1]
           dy == locs[row + 1][2] - locs[index + 1][2]
       IN  RoundedSqrt(dx * dx + dy * dy) + (IF row > index THEN 1 ELSE 0)

\* line<T>::operator[] of row `row`: _matrix[row][index] over locations locs.
MatrixOf(locs, row, index) ==
  IF row = index
  THEN 3 * (distance_max \div 4)
  ELSE LET dx == locs[row + 1][1] - locs[index + 1][1]
           dy == locs[row + 1][2] - locs[index + 1][2]
       IN  RoundedSqrt(dx * dx + dy * dy)

\* The entries of the matrix over locations locs, row by row.
MatrixTable(locs) ==
  [row \in 0..(Len(locs) - 1) |->
     [index \in 0..(Len(locs) - 1) |-> MatrixOf(locs, row, index)]]

\* _matrix[i][j] in the search.
Matrix(i, j) == _matrix[i][j]

----------------------------------------------------------------------------
(* local_search::local_search *)

\* Mutant of BuildEdges: the write that closes the cycle is not bounds-checked.
RECURSIVE BuildEdgesUncheckedClose(_, _, _, _)
BuildEdgesUncheckedClose(t, k, last_index, edges) ==
  IF k > Len(t)
  THEN [thrown |-> FALSE, edges |-> [edges EXCEPT ![last_index] = t[1]]]
  ELSE IF last_index \notin DOMAIN edges
       THEN [thrown |-> TRUE, edges |-> edges]
       ELSE BuildEdgesUncheckedClose(t, k + 1, t[k],
                                     [edges EXCEPT ![last_index] = t[k]])

\* The loop that fills _edges: `last_index` is the id written last, k the
\* position of `location` in the tour.  _edges.at() throws std::out_of_range
\* when last_index is no index of _edges; the exception leaves the constructor.
RECURSIVE BuildEdges(_, _, _, _)
BuildEdges(t, k, last_index, edges) ==
  IF last_index \notin DOMAIN edges
  THEN [thrown |-> TRUE, edges |-> edges]
  ELSE IF k > Len(t)
       THEN [thrown |-> FALSE, edges |-> [edges EXCEPT ![last_index] = t[1]]]
       ELSE BuildEdges(t, k + 1, t[k], [edges EXCEPT ![last_index] = t[k]])

\* _edges(_matrix.size()) followed by the loop over the tour (t is not empty).
EdgesOf(t, n) == BuildEdges(t, 2, t[1], [i \in 0..(n - 1) |-> 0])

\* Mutant of ShiftAt: shift grows at every rank, beyond the remainder.
ShiftAtUncapped(i, remainder) == i

\* The value of `shift` when _rank_limits[i] is shifted.
RECURSIVE ShiftAt(_, _)
ShiftAt(i, remainder) ==
  IF i = 0 THEN 0
  ELSE LET shift == ShiftAt(i - 1, remainder)
       IN  IF shift < remainder THEN shift + 1 ELSE shift

\* Mutant of RankLimitsOf: the remainder of the division is dropped.
RankLimitsOfNoRemainder(n, T) ==
  LET range_width == n \div T
  IN  [i \in 0..T |-> range_width * i]

\* Mutant of RankLimitsOf: no limit is shifted, the remainder stays in the
\* last range.
RankLimitsOfUnshifted(n, T) ==
  [i \in 0..T |-> IF i = T THEN n ELSE (n \div T) * i]

\* _rank_limits for n edges and T threads: T values range_width * i, shifted,
\* then n pushed at the back.
RankLimitsOf(n, T) ==
  LET range_width == n \div T
      remainder == n % T
  IN  [i \in 0..T |->
         IF i = T THEN n
         ELSE IF i = 0 THEN 0
         ELSE range_width * i + ShiftAt(i, remainder)]

\* number_of_lookups for n edges (n >= 2): n - 1 entries, the first one
\* size() - 3 narrowed to unsigned, the others 0, 1, ... from the back.
NumberOfLookups(n) ==
  [i \in 0..(n - 2) |->
     IF i = 0 THEN (((n - 3) % size_t_mod) % unsigned_mod)
     ELSE (n - 2) - i]

\* cumulated_lookups: std::partial_sum of number_of_lookups, in unsigned.
RECURSIVE CumulatedLookups(_, _)
CumulatedLookups(n, i) ==
  IF i = 0 THEN NumberOfLookups(n)[0]
  ELSE (CumulatedLookups(n, i - 1) + NumberOfLookups(n)[i]) % unsigned_mod

\* total_lookups = _edges.size() * (_edges.size() - 3) / 2, narrowed to unsigned.
TotalLookups(n) ==
  (((n * ((n - 3) % size_t_mod)) % size_t_mod) \div 2) % unsigned_mod

\* The inner while loop: the first rank from `rank` on whose cumulated
\* lookups reach i * thread_lookup_share (reads stay inside the vector for
\* the thread counts the model constructs with).
RECURSIVE SeparatingRank(_, _, _)
SeparatingRank(n, rank, bound) ==
  IF CumulatedLookups(n, rank) < bound
  THEN SeparatingRank(n, rank + 1, bound)
  ELSE rank

\* Mutant of SymLimitAt: the search for the separating rank starts at rank
\* 0 for every thread.
SymLimitAtFromStart(n, T, i) ==
  SeparatingRank(n, 0, (i * (TotalLookups(n) \div T)) % size_t_mod) + 1

\* Mutant of SymLimitAt: the separating rank itself is pushed, without the
\* increment after the inner loop.
RECURSIVE SymLimitAtNoStep(_, _, _)
SymLimitAtNoStep(n, T, i) ==
  LET thread_lookup_share == TotalLookups(n) \div T
      rank == IF i = 1 THEN 0 ELSE SymLimitAtNoStep(n, T, i - 1)
  IN  SeparatingRank(n, rank, (i * thread_lookup_share) % size_t_mod)

\* The value pushed for thread i, 1 <= i < T: one past the separating rank.
RECURSIVE SymLimitAt(_, _, _)
SymLimitAt(n, T, i) ==
  LET thread_lookup_share == TotalLookups(n) \div T
      rank == IF i = 1 THEN 0 ELSE SymLimitAt(n, T, i - 1)
  IN  SeparatingRank(n, rank, (i * thread_lookup_share) % size_t_mod) + 1

\* _sym_two_opt_rank_limits for n edges and T threads.
SymTwoOptRankLimitsOf(n, T) ==
  [i \in 0..T |->
     IF i = 0 THEN 0
     ELSE IF i = T THEN n
     ELSE SymLimitAt(n, T, i)]

----------------------------------------------------------------------------
(* The per-thread result of a look_up: the three values the lambda writes  *)
(* through its references, and `reads`, the number of _edges.at() reads it *)
(* made.  The vectors start as best_gains (_nb_threads, 0) and             *)
(* value-initialised index vectors.                                        *)

NoMove == [best_gain |-> 0, best_edge_1_start |-> 0, best_edge_2_start |-> 0,
           reads |-> 0, evaluated |-> << >>, largest_cost |-> 0]

\* Mutant of Improve: every gaining candidate replaces the best one.
ImproveLastWins(best, before_cost, after_cost, edge_1_start, edge_2_start) ==
  IF before_cost > after_cost
  THEN [best EXCEPT !.best_gain = (before_cost - after_cost) % distance_mod,
                    !.best_edge_1_start = edge_1_start,
                    !.best_edge_2_start = edge_2_start]
  ELSE best

\* Mutant of Improve: a candidate of the same gain as the best one also
\* replaces it.
ImproveOnTies(best, before_cost, after_cost, edge_1_start, edge_2_start) ==
  IF before_cost > after_cost
     /\ (before_cost - after_cost) % distance_mod >= best.best_gain
  THEN [best EXCEPT !.best_gain = (before_cost - after_cost) % distance_mod,
                    !.best_edge_1_start = edge_1_start,
                    !.best_edge_2_start = edge_2_start]
  ELSE best

\* if(before_cost > after_cost){ gain = ...; if(gain > best_gain){ ... } }
\* (b is the value of best, before and after the value of the two costs.)
\* The pair whose costs are compared is added to `evaluated`, and
\* `largest_cost` is the largest cost compared so far.
Improve(best, before_cost, after_cost, edge_1_start, edge_2_start) ==
  CHOOSE improved \in
    { IF before > after /\ (before - after) % distance_mod > b.best_gain
      THEN [b EXCEPT !.best_gain = (before - after) % distance_mod,
                     !.best_edge_1_start = edge_1_start,
                     !.best_edge_2_start = edge_2_start]
      ELSE b :
      b \in {[best EXCEPT !.evaluated =
                            Append(@, <<edge_1_start, edge_2_start>>),
                          !.largest_cost =
                            Largest({@, before_cost, after_cost})]},
      before \in {before_cost}, after \in {after_cost} } : TRUE

\* A sum of distance_t values.
Sum2(a, b) == (a + b) % distance_mod

Sum3(a, b, c) == (a + b + c) % distance_mod

Read(best, k) == [best EXCEPT !.reads = @ + k]

----------------------------------------------------------------------------
(* local_search::two_opt_step *)

\* before_cost and after_cost of the 2-opt candidate (edge_1_start, edge_2_start).
TwoOptBeforeCost(e, edge_1_start, edge_2_start) ==
  Sum2(Matrix(edge_1_start, e[edge_1_start]),
       Matrix(edge_2_start, e[edge_2_start]))

TwoOptAfterCost(e, edge_1_start, edge_2_start) ==
  Sum2(Matrix(edge_1_start, edge_2_start),
       Matrix(e[edge_1_start], e[edge_2_start]))

\* The inner for loop of look_up, from edge_2_start on.
RECURSIVE TwoOptInner(_, _, _, _)
TwoOptInner(e, edge_1_start, edge_2_start, best) ==
  IF edge_2_start >= Cardinality(DOMAIN e)
  THEN best
  ELSE LET edge_1_end == e[edge_1_start]
           edge_2_end == e[edge_2_start]
           b == Read(best, 1)
       IN  IF (edge_2_start = edge_1_end) \/ (edge_2_end = edge_1_start)
           THEN TwoOptInner(e, edge_1_start, edge_2_start + 1, b)
           ELSE TwoOptInner(e, edge_1_start, edge_2_start + 1,
                  Improve(b, TwoOptBeforeCost(e, edge_1_start, edge_2_start),
                          TwoOptAfterCost(e, edge_1_start, edge_2_start),
                          edge_1_start, edge_2_start))

\* Mutant of TwoOptLookUp: edge_2_start runs from 0, so a pair of edges is
\* met in both orders.
RECURSIVE TwoOptLookUpBothOrders(_, _, _, _)
TwoOptLookUpBothOrders(e, edge_1_start, end, best) ==
  IF edge_1_start >= end
  THEN best
  ELSE TwoOptLookUpBothOrders(e, edge_1_start + 1, end,
         TwoOptInner(e, edge_1_start, 0, Read(best, 1)))

\* look_up(start, end, ...) of two_opt_step, from edge_1_start on.
RECURSIVE TwoOptLookUp(_, _, _, _)
TwoOptLookUp(e, edge_1_start, end, best) ==
  IF edge_1_start >= end
  THEN best
  ELSE TwoOptLookUp(e, edge_1_start + 1, end,
         TwoOptInner(e, edge_1_start, edge_1_start + 1, Read(best, 1)))

\* to_reverse: the nodes from `current` up to, not including, best_edge_2_start.
RECURSIVE ToReverse(_, _, _)
ToReverse(e, current, best_edge_2_start) ==
  IF current = best_edge_2_start
  THEN << >>
  ELSE <<current>> \o ToReverse(e, e[current], best_edge_2_start)

\* The loop over to_reverse.rbegin()..rend(): k elements are still to be
\* written, `current` is the node written last.
RECURSIVE WriteReversed(_, _, _, _, _)
WriteReversed(e, to_reverse, k, current, best_edge_2_end) ==
  IF k = 0
  THEN [e EXCEPT ![current] = best_edge_2_end]
  ELSE WriteReversed([e EXCEPT ![current] = to_reverse[k]], to_reverse, k - 1,
                     to_reverse[k], best_edge_2_end)

\* Mutant of TwoOptApply: the two new edges are written, the path between
\* them is not reversed.
TwoOptApplyUnreversed(e, best_edge_1_start, best_edge_2_start) ==
  [e EXCEPT ![best_edge_1_start] = best_edge_2_start,
            ![e[best_edge_1_start]] = e[best_edge_2_start]]

\* The exchange of two_opt_step for best_gain > 0.
TwoOptApply(e, best_edge_1_start, best_edge_2_start) ==
  LET best_edge_1_end == e[best_edge_1_start]
      best_edge_2_end == e[best_edge_2_start]
      to_reverse == ToReverse(e, best_edge_1_end, best_edge_2_start)
  IN  WriteReversed([e EXCEPT ![best_edge_1_start] = best_edge_2_start],
                    to_reverse, Len(to_reverse), best_edge_2_start,
                    best_edge_2_end)

----------------------------------------------------------------------------
(* local_search::relocate_step *)

RelocateBeforeCost(e, edge_1_start, edge_2_start) ==
  LET edge_1_end == e[edge_1_start]
      next == e[edge_1_end]
  IN  Sum3(Matrix(edge_1_start, edge_1_end), Matrix(edge_1_end, next),
           Matrix(edge_2_start, e[edge_2_start]))

RelocateAfterCost(e, edge_1_start, edge_2_start) ==
  LET edge_1_end == e[edge_1_start]
      next == e[edge_1_end]
  IN  Sum3(Matrix(edge_1_start, next), Matrix(edge_2_start, edge_1_end),
           Matrix(edge_1_end, e[edge_2_start]))

\* The while loop of look_up, from edge_2_start on.
RECURSIVE RelocateInner(_, _, _, _)
RelocateInner(e, edge_1_start, edge_2_start, best) ==
  IF edge_2_start = edge_1_start
  THEN best
  ELSE RelocateInner(e, edge_1_start, e[edge_2_start],
         Improve(Read(best, 1),
                 RelocateBeforeCost(e, edge_1_start, edge_2_start),
                 RelocateAfterCost(e, edge_1_start, edge_2_start),
                 edge_1_start, edge_2_start))

\* Mutant of RelocateLookUp: edge_2_start starts at edge_1_end.
RECURSIVE RelocateLookUpFromEdgeEnd(_, _, _, _)
RelocateLookUpFromEdgeEnd(e, edge_1_start, end, best) ==
  IF edge_1_start >= end
  THEN best
  ELSE RelocateLookUpFromEdgeEnd(e, edge_1_start + 1, end,
         RelocateInner(e, edge_1_start, e[edge_1_start], Read(best, 2)))

\* look_up(start, end, ...) of relocate_step, from edge_1_start on.
RECURSIVE RelocateLookUp(_, _, _, _)
RelocateLookUp(e, edge_1_start, end, best) ==
  IF edge_1_start >= end
  THEN best
  ELSE RelocateLookUp(e, edge_1_start + 1, end,
         RelocateInner(e, edge_1_start, e[e[edge_1_start]], Read(best, 2)))

\* Mutant of RelocateApply: the successor of best_edge_1_end is overwritten
\* before it is read.
RelocateApplyClobbered(e, best_edge_1_start, best_edge_2_start) ==
  LET best_edge_1_end == e[best_edge_1_start]
      best_edge_2_end == e[best_edge_2_start]
      e1 == [e EXCEPT ![best_edge_1_end] = best_edge_2_end]
      e2 == [e1 EXCEPT ![best_edge_1_start] = e1[best_edge_1_end]]
  IN  [e2 EXCEPT ![best_edge_2_start] = best_edge_1_end]

\* The exchange of relocate_step for best_gain > 0: three writes in order.
RelocateApply(e, best_edge_1_start, best_edge_2_start) ==
  LET best_edge_1_end == e[best_edge_1_start]
      best_edge_2_end == e[best_edge_2_start]
      e1 == [e EXCEPT ![best_edge_1_start] = e[best_edge_1_end]]
      e2 == [e1 EXCEPT ![best_edge_1_end] = best_edge_2_end]
  IN  [e2 EXCEPT ![best_edge_2_start] = best_edge_1_end]

----------------------------------------------------------------------------
(* local_search::or_opt_step *)

OrOptBeforeCost(e, edge_1_start, edge_2_start) ==
  LET edge_1_end == e[edge_1_start]
      next == e[edge_1_end]
      next_2 == e[next]
  IN  Sum3(Matrix(edge_1_start, edge_1_end), Matrix(next, next_2),
           Matrix(edge_2_start, e[edge_2_start]))

\* Mutant of OrOptAfterCost: the last term is the one of relocate_step.
OrOptAfterCostOfRelocate(e, edge_1_start, edge_2_start) ==
  LET edge_1_end == e[edge_1_start]
      next == e[edge_1_end]
      next_2 == e[next]
  IN  Sum3(Matrix(edge_1_start, next_2), Matrix(edge_2_start, edge_1_end),
           Matrix(edge_1_end, e[edge_2_start]))

OrOptAfterCost(e, edge_1_start, edge_2_start) ==
  LET edge_1_end == e[edge_1_start]
      next == e[edge_1_end]
      next_2 == e[next]
  IN  Sum3(Matrix(edge_1_start, next_2), Matrix(edge_2_start, edge_1_end),
           Matrix(next, e[edge_2_start]))

\* The while loop of look_up, from edge_2_start on.
RECURSIVE OrOptInner(_, _, _, _)
OrOptInner(e, edge_1_start, edge_2_start, best) ==
  IF edge_2_start = edge_1_start
  THEN best
  ELSE OrOptInner(e, edge_1_start, e[edge_2_start],
         Improve(Read(best, 1),
                 OrOptBeforeCost(e, edge_1_start, edge_2_start),
                 OrOptAfterCost(e, edge_1_start, edge_2_start),
                 edge_1_start, edge_2_start))

\* look_up(start, end, ...) of or_opt_step, from edge_1_start on.
RECURSIVE OrOptLookUp(_, _, _, _)
OrOptLookUp(e, edge_1_start, end, best) ==
  IF edge_1_start >= end
  THEN best
  ELSE OrOptLookUp(e, edge_1_start + 1, end,
         OrOptInner(e, edge_1_start, e[e[e[edge_1_start]]], Read(best, 3)))

\* Mutant of OrOptApply: best_edge_2_start is written before its old
\* successor is copied to `next`.
OrOptApplyLateRead(e, best_edge_1_start, best_edge_2_start) ==
  LET best_edge_1_end == e[best_edge_1_start]
      next == e[best_edge_1_end]
      e1 == [e EXCEPT ![best_edge_1_start] = e[next]]
      e2 == [e1 EXCEPT ![best_edge_2_start] = best_edge_1_end]
  IN  [e2 EXCEPT ![next] = e2[best_edge_2_start]]

\* The exchange of or_opt_step for best_gain > 0: three writes in order, the
\* second one reading _edges after the first write.
OrOptApply(e, best_edge_1_start, best_edge_2_start) ==
  LET best_edge_1_end == e[best_edge_1_start]
      next == e[best_edge_1_end]
      e1 == [e EXCEPT ![best_edge_1_start] = e[next]]
      e2 == [e1 EXCEPT ![next] = e1[best_edge_2_start]]
  IN  [e2 EXCEPT ![best_edge_2_start] = best_edge_1_end]

----------------------------------------------------------------------------
(* The part the three steps share: one look_up per thread on its range of  *)
(* the limits, then the reduction over best_gains.                         *)

\* _edges.size()
EdgesSize(e) == Cardinality(DOMAIN e)

\* Mutant of BestRank: the last rank that holds the largest best_gain.
BestRankLastMax(bests) ==
  CHOOSE k \in DOMAIN bests :
    \A j \in DOMAIN bests :
      /\ bests[j].best_gain <= bests[k].best_gain
      /\ (j > k => bests[j].best_gain < bests[k].best_gain)

\* std::distance(begin, std::max_element(begin, end)): the first rank that
\* holds the largest best_gain.
BestRank(bests) ==
  CHOOSE k \in DOMAIN bests :
    \A j \in DOMAIN bests :
      /\ bests[j].best_gain <= bests[k].best_gain
      /\ (j < k => bests[j].best_gain < bests[k].best_gain)

\* The _edges.at() reads of all the look_ups together.
RECURSIVE ReadsUpTo(_, _)
ReadsUpTo(bests, k) ==
  IF k < 0 THEN 0 ELSE bests[k].reads + ReadsUpTo(bests, k - 1)

\* What a step leaves when it passes its size check without a move.
Unmoved(e, bests) ==
  [gain |-> 0, edges |-> e, reads |-> ReadsUpTo(bests, EdgesSize(bests) - 1),
   edge_1_start |-> bests[BestRank(bests)].best_edge_1_start,
   edge_2_start |-> bests[BestRank(bests)].best_edge_2_start]

\* What a step leaves when it returns at its size check.
Refused(e) ==
  [gain |-> 0, edges |-> e, reads |-> 0, edge_1_start |-> 0, edge_2_start |-> 0]

\* best_gains, best_edge_1_starts, best_edge_2_starts after the join, for T
\* threads on the ranges of `limits`.
\* Mutant of TwoOptBests: the main thread takes its range from the limits
\* of relocate and or-opt.
TwoOptBestsMainOnRankLimits(e, T, limits) ==
  [k \in 0..(T - 1) |->
     IF k = T - 1
     THEN TwoOptLookUp(e, RankLimitsOf(EdgesSize(e), T)[k],
                       RankLimitsOf(EdgesSize(e), T)[k + 1], NoMove)
     ELSE TwoOptLookUp(e, limits[k], limits[k + 1], NoMove)]

TwoOptBests(e, T, limits) ==
  [k \in 0..(T - 1) |-> TwoOptLookUp(e, limits[k], limits[k + 1], NoMove)]

RelocateBests(e, T, limits) ==
  [k \in 0..(T - 1) |-> RelocateLookUp(e, limits[k], limits[k + 1], NoMove)]

OrOptBests(e, T, limits) ==
  [k \in 0..(T - 1) |-> OrOptLookUp(e, limits[k], limits[k + 1], NoMove)]

\* The size checks that open the three steps.
TwoOptRefuses(e) == EdgesSize(e) < 4

RelocateRefuses(e) == EdgesSize(e) < 3

\* Mutant of OrOptRefuses: three nodes are let through.
OrOptRefusesBelowThree(e) == EdgesSize(e) < 3

OrOptRefuses(e) == EdgesSize(e) < 4

\* The part of two_opt_step after the join, on the vectors bests: the
\* value returned (gain), _edges afterwards, the reads made and the pair
\* selected.
TwoOptMove(e, bests) ==
  LET best == bests[BestRank(bests)]
  IN  IF best.best_gain > 0
      THEN [gain |-> best.best_gain,
            edges |-> TwoOptApply(e, best.best_edge_1_start,
                                  best.best_edge_2_start),
            reads |-> ReadsUpTo(bests, EdgesSize(bests) - 1) + 2
                      + Len(ToReverse(e, e[best.best_edge_1_start],
                                      best.best_edge_2_start)),
            edge_1_start |-> best.best_edge_1_start,
            edge_2_start |-> best.best_edge_2_start]
      ELSE Unmoved(e, bests)

\* two_opt_step() on edges e, with T threads on the ranges of limits.
TwoOptStepOf(e, T, limits) ==
  IF TwoOptRefuses(e)
  THEN Refused(e)
  ELSE CHOOSE r \in { TwoOptMove(e, bests) :
                      bests \in {TwoOptBests(e, T, limits)} } : TRUE

\* The part of relocate_step after the join.
RelocateMove(e, bests) ==
  LET best == bests[BestRank(bests)]
  IN  IF best.best_gain > 0
      THEN [gain |-> best.best_gain,
            edges |-> RelocateApply(e, best.best_edge_1_start,
                                    best.best_edge_2_start),
            reads |-> ReadsUpTo(bests, EdgesSize(bests) - 1) + 3,
            edge_1_start |-> best.best_edge_1_start,
            edge_2_start |-> best.best_edge_2_start]
      ELSE Unmoved(e, bests)

\* relocate_step() on edges e.
RelocateStepOf(e, T, limits) ==
  IF RelocateRefuses(e)
  THEN Refused(e)
  ELSE CHOOSE r \in { RelocateMove(e, bests) :
                      bests \in {RelocateBests(e, T, limits)} } : TRUE

\* The part of or_opt_step after the join.
OrOptMove(e, bests) ==
  LET best == bests[BestRank(bests)]
  IN  IF best.best_gain > 0
      THEN [gain |-> best.best_gain,
            edges |-> OrOptApply(e, best.best_edge_1_start,
                                 best.best_edge_2_start),
            reads |-> ReadsUpTo(bests, EdgesSize(bests) - 1) + 4,
            edge_1_start |-> best.best_edge_1_start,
            edge_2_start |-> best.best_edge_2_start]
      ELSE Unmoved(e, bests)

\* or_opt_step() on edges e.
OrOptStepOf(e, T, limits) ==
  IF OrOptRefuses(e)
  THEN Refused(e)
  ELSE CHOOSE r \in { OrOptMove(e, bests) :
                      bests \in {OrOptBests(e, T, limits)} } : TRUE

----------------------------------------------------------------------------
(* The inputs. *)

GridHeight == MaxY + 1

\* The grid point number p, column by column.
GridPoint(p) == <<p \div GridHeight, p % GridHeight>>

\* The strictly increasing sequences of n numbers in first..last.
RECURSIVE Increasing(_, _, _)
Increasing(n, first, last) ==
  IF n = 0 THEN { << >> }
  ELSE UNION { { <<p>> \o rest : rest \in Increasing(n - 1, p + 1, last) } :
               p \in first..last }

\* The location vectors of n distinct grid points, listed column by column.
LocationVectors(n) ==
  { [k \in 1..n |-> GridPoint(idx[k])] :
      idx \in Increasing(n, 0, (MaxX + 1) * GridHeight - 1) }

\* Location vectors off the grid order: the crossed unit square, the unit
\* square in tour order, five points of a line with one out of place, and
\* six points on which the driver needs a third round.
ScenarioLocations ==
  { << <<0, 0>>, <<1, 1>>, <<1, 0>>, <<0, 1>> >>,
    << <<0, 0>>, <<0, 1>>, <<1, 1>>, <<1, 0>> >>,
    << <<0, 0>>, <<1, 0>>, <<5, 0>>, <<2, 0>>, <<3, 0>> >>,
    << <<0, 3>>, <<0, 2>>, <<0, 1>>, <<3, 3>>, <<3, 0>>, <<1, 2>> >> }

\* The location vectors of n points the model starts from.
InputLocations(n) ==
  LocationVectors(n) \cup { locs \in ScenarioLocations : Len(locs) = n }

\* The orders of the ids 0..n-1 that start at 0: every cyclic order of the
\* ids is the cycle of one of them.
Tours(n) ==
  { t \in [1..n -> 0..(n - 1)] :
      /\ t[1] = 0
      /\ \A i, j \in 1..n : i # j => t[i] # t[j] }

\* The fields of a local_search constructed from t and threads over a
\* matrix of n locations.
Constructed(n, t, threads) ==
  LET T == Min(threads, Len(t))
  IN  /\ _edges = EdgesOf(t, n).edges
      /\ _nb_threads = T
      /\ _rank_limits = RankLimitsOf(n, T)
      /\ _sym_two_opt_rank_limits = SymTwoOptRankLimitsOf(n, T)

\* No step has been called and no driver round made.
NothingRun ==
  /\ op = "none"
  /\ gain = 0
  /\ old_edges = _edges
  /\ nb_reads = 0
  /\ move_edge_1_start = 0
  /\ move_edge_2_start = 0
  /\ total_gain = 0
  /\ sym_two_opt_gain = 0
  /\ sym_relocate_gain = 0
  /\ sym_or_opt_gain = 0
  /\ run = 1
  /\ rounds = 0
  /\ run_gain = 0
  /\ first_output = _edges
  /\ running = "none"
  /\ threads_size = 0
  /\ joined = 0
  /\ at_row = << >>
  /\ best_vectors = << >>
  /\ first_index = 0
  /\ got_tour = << >>

\* A search constructed from a valid tour, no step made yet.
InitSearch ==
  /\ \E n \in 2..MaxN :
       /\ locations \in InputLocations(n)
       /\ _matrix = MatrixTable(locations)
       /\ tour \in Tours(n)
       /\ nb_threads \in 1..MaxN
       /\ Constructed(n, tour, nb_threads)
  /\ NothingRun

----------------------------------------------------------------------------
(* Spec: the three steps called in any order on a constructed search.      *)

\* What every call of a step leaves behind: r is the step's outcome.
Called(name, r) ==
  /\ op' = name
  /\ gain' = r.gain
  /\ old_edges' = _edges
  /\ nb_reads' = r.reads
  /\ move_edge_1_start' = r.edge_1_start
  /\ move_edge_2_start' = r.edge_2_start
  /\ _edges' = r.edges

two_opt_step ==
  /\ pc = "steps"
  /\ \E r \in {TwoOptStepOf(_edges, _nb_threads, _sym_two_opt_rank_limits)} :
       Called("two_opt_step", r)
  /\ UNCHANGED <<search_vars, tour_vars, thread_vars,
                 driver_vars, pc>>

relocate_step ==
  /\ pc = "steps"
  /\ \E r \in {RelocateStepOf(_edges, _nb_threads, _rank_limits)} :
       Called("relocate_step", r)
  /\ UNCHANGED <<search_vars, tour_vars, thread_vars,
                 driver_vars, pc>>

or_opt_step ==
  /\ pc = "steps"
  /\ \E r \in {OrOptStepOf(_edges, _nb_threads, _rank_limits)} :
       Called("or_opt_step", r)
  /\ UNCHANGED <<search_vars, tour_vars, thread_vars,
                 driver_vars, pc>>

Init == pc = "steps" /\ InitSearch

Next == two_opt_step \/ relocate_step \/ or_opt_step

Spec == Init /\ [][Next]_vars

----------------------------------------------------------------------------
(* CtorSpec: the constructor called on an arbitrary non-empty tour, over a *)
(* matrix of n locations.  The ids of the tour are taken from 0..n, so n   *)
(* is the id out of range, and the tour has up to n + 1 elements.  The     *)
(* larger matrices, up to MaxN locations, are constructed with the tours   *)
(* that visit every location once.                                         *)
(* With more threads than edges left (a tour of ids in range longer than   *)
(* the matrix, and as many threads requested) the constructor reads past   *)
(* cumulated_lookups, which is undefined: these calls are not among the    *)
(* inputs.                                                                 *)

\* The non-empty sequences over S of length up to n.
RECURSIVE SeqsUpTo(_, _)
SeqsUpTo(S, n) ==
  IF n = 0 THEN {}
  ELSE LET shorter == SeqsUpTo(S, n - 1)
       IN  { <<x>> : x \in S } \cup shorter
           \cup { Append(t, x) : t \in shorter, x \in S }

\* The first n grid points: the matrix of the constructor calls.
CtorLocations(n) == [k \in 1..n |-> GridPoint(k - 1)]

\* Every id of t is an index of a matrix of n locations.
InRange(t, n) == \A i \in 1..Len(t) : t[i] < n

CtorInit ==
  /\ pc = "ctor"
  /\ \E n \in 2..MaxN :
       /\ locations = CtorLocations(n)
       /\ \/ n <= MaxCtorN /\ tour \in SeqsUpTo(0..n, n + 1)
          \/ tour \in Tours(n)
       /\ nb_threads \in 1..(n + 1)
       /\ InRange(tour, n) => Min(nb_threads, Len(tour)) <= n
  /\ _matrix = MatrixTable(locations)
  /\ _edges = << >>
  /\ _nb_threads = 0
  /\ _rank_limits = << >>
  /\ _sym_two_opt_rank_limits = << >>
  /\ NothingRun

\* local_search::local_search(matrix, tour, nb_threads): either the
\* std::out_of_range of _edges.at() leaves the constructor and there is no
\* object, or the four members are set.
construct ==
  /\ pc = "ctor"
  /\ LET n == Len(locations)
         T == Min(nb_threads, Len(tour))
         built == EdgesOf(tour, n)
     IN  IF built.thrown
         THEN /\ pc' = "failed"
              /\ UNCHANGED <<_edges, _nb_threads, _rank_limits,
                             _sym_two_opt_rank_limits, old_edges, first_output>>
         ELSE /\ pc' = "built"
              /\ _edges' = built.edges
              /\ _nb_threads' = T
              /\ _rank_limits' = RankLimitsOf(n, T)
              /\ _sym_two_opt_rank_limits' = SymTwoOptRankLimitsOf(n, T)
              /\ old_edges' = built.edges
              /\ first_output' = built.edges
  /\ UNCHANGED <<locations, _matrix, tour, nb_threads, op, gain, nb_reads,
                 move_edge_1_start, move_edge_2_start, total_gain,
                 sym_two_opt_gain, sym_relocate_gain, sym_or_opt_gain, run,
                 rounds, run_gain, thread_vars, tour_vars>>

\* Mutant of GetTourFrom: first_index itself is not pushed.
RECURSIVE GetTourFromNext(_, _, _, _)
GetTourFromNext(e, first, next_index, list) ==
  IF next_index = first
  THEN [returns |-> TRUE, tour |-> Tail(list)]
  ELSE IF Len(list) > EdgesSize(e)
       THEN [returns |-> FALSE, tour |-> list]
       ELSE GetTourFromNext(e, first, e[next_index], Append(list, next_index))

\* The while loop of get_tour: next_index is pushed and advanced until it
\* is first_index again.  A walk that has pushed more nodes than _edges has
\* entries is on a cycle without first_index and never returns.
RECURSIVE GetTourFrom(_, _, _, _)
GetTourFrom(e, first, next_index, list) ==
  IF next_index = first
  THEN [returns |-> TRUE, tour |-> list]
  ELSE IF Len(list) > EdgesSize(e)
       THEN [returns |-> FALSE, tour |-> list]
       ELSE GetTourFrom(e, first, e[next_index], Append(list, next_index))

\* get_tour(first) on edges e.
GetTour(e, first) == GetTourFrom(e, first, e[first], <<first>>)

\* local_search::get_tour(first_index) on the search just built, for an id
\* of the matrix: the list is returned, or the walk goes on for ever.
get_tour ==
  /\ pc = "built"
  /\ \E first \in DOMAIN _edges :
       /\ first_index' = first
       /\ \E r \in {GetTour(_edges, first)} :
            IF r.returns
            THEN pc' = "toured" /\ got_tour' = r.tour
            ELSE pc' = "walking" /\ UNCHANGED got_tour
  /\ UNCHANGED <<search_vars, driver_vars, thread_vars, _edges, op, gain,
                 old_edges, nb_reads, move_edge_1_start, move_edge_2_start>>

CtorNext == construct \/ get_tour

CtorSpec == CtorInit /\ [][CtorNext]_vars

----------------------------------------------------------------------------
(* DriverSpec: the do-while of solve_symmetric_tsp on a constructed search *)
(* and, once it has exited, the same loop run a second time on the tour it *)
(* left.  One action is one pass of a perform_all_* do-while: a step, then *)
(* either the next pass or the return of total_gain to the driver.         *)

\* One pass of a perform_all_* loop whose step had outcome r: `here` is the
\* routine, `there` where the driver goes when the routine returns.
Pass(name, r, here, there) ==
  /\ Called(name, r)
  /\ run_gain' = run_gain + r.gain
  /\ IF r.gain > 0
     THEN /\ total_gain' = (total_gain + r.gain) % distance_mod
          /\ pc' = here
     ELSE /\ total_gain' = 0
          /\ pc' = there

perform_all_two_opt_steps ==
  /\ pc = "perform_all_two_opt_steps"
  /\ \E r \in {TwoOptStepOf(_edges, _nb_threads, _sym_two_opt_rank_limits)} :
         /\ Pass("two_opt_step", r, "perform_all_two_opt_steps",
                 "perform_all_relocate_steps")
         /\ sym_two_opt_gain' = IF r.gain > 0 THEN sym_two_opt_gain
                                ELSE total_gain
  /\ UNCHANGED <<search_vars, tour_vars, thread_vars,
                 sym_relocate_gain, sym_or_opt_gain, run, rounds,
                 first_output>>

perform_all_relocate_steps ==
  /\ pc = "perform_all_relocate_steps"
  /\ \E r \in {RelocateStepOf(_edges, _nb_threads, _rank_limits)} :
         /\ Pass("relocate_step", r, "perform_all_relocate_steps",
                 "perform_all_or_opt_steps")
         /\ sym_relocate_gain' = IF r.gain > 0 THEN sym_relocate_gain
                                 ELSE total_gain
  /\ UNCHANGED <<search_vars, tour_vars, thread_vars,
                 sym_two_opt_gain, sym_or_opt_gain, run, rounds,
                 first_output>>

perform_all_or_opt_steps ==
  /\ pc = "perform_all_or_opt_steps"
  /\ \E r \in {OrOptStepOf(_edges, _nb_threads, _rank_limits)} :
         /\ Pass("or_opt_step", r, "perform_all_or_opt_steps", "while")
         /\ sym_or_opt_gain' = IF r.gain > 0 THEN sym_or_opt_gain
                               ELSE total_gain
  /\ UNCHANGED <<search_vars, tour_vars, thread_vars,
                 sym_two_opt_gain, sym_relocate_gain, run, rounds,
                 first_output>>

\* Mutants of DriverContinues: a round without an or-opt gain also goes on;
\* only the or-opt gain is looked at; the three gains are and-ed.
DriverContinuesAlways(two_opt_gain, relocate_gain, or_opt_gain) ==
  (two_opt_gain > 0) \/ (relocate_gain > 0) \/ (or_opt_gain >= 0)

DriverContinuesOnOrOpt(two_opt_gain, relocate_gain, or_opt_gain) ==
  or_opt_gain > 0

DriverContinuesOnAll(two_opt_gain, relocate_gain, or_opt_gain) ==
  (two_opt_gain > 0) /\ (relocate_gain > 0) /\ (or_opt_gain > 0)

\* The condition of the driver's do-while.
DriverContinues(two_opt_gain, relocate_gain, or_opt_gain) ==
  (two_opt_gain > 0) \/ (relocate_gain > 0) \/ (or_opt_gain > 0)

\* The test that closes a round of the driver.
driver_while ==
  /\ pc = "while"
  /\ rounds' = IF rounds < MaxRounds THEN rounds + 1 ELSE rounds
  /\ pc' = IF DriverContinues(sym_two_opt_gain, sym_relocate_gain,
                              sym_or_opt_gain)
           THEN "perform_all_two_opt_steps"
           ELSE "done"
  /\ UNCHANGED <<search_vars, tour_vars, thread_vars,
                 _edges, op, gain, old_edges, nb_reads,
                 move_edge_1_start, move_edge_2_start, total_gain,
                 sym_two_opt_gain, sym_relocate_gain, sym_or_opt_gain, run,
                 run_gain, first_output>>

\* The driver's loop is entered a second time on the search it has left.
run_again ==
  /\ pc = "done"
  /\ run = 1
  /\ run' = 2
  /\ first_output' = _edges
  /\ sym_two_opt_gain' = 0
  /\ sym_relocate_gain' = 0
  /\ sym_or_opt_gain' = 0
  /\ rounds' = 0
  /\ run_gain' = 0
  /\ pc' = "perform_all_two_opt_steps"
  /\ UNCHANGED <<search_vars, tour_vars, thread_vars,
                 _edges, op, gain, old_edges, nb_reads,
                 move_edge_1_start, move_edge_2_start, total_gain>>

DriverInit == pc = "perform_all_two_opt_steps" /\ InitSearch

DriverNext ==
  \/ perform_all_two_opt_steps
  \/ perform_all_relocate_steps
  \/ perform_all_or_opt_steps
  \/ driver_while
  \/ run_again

DriverSpec == DriverInit /\ [][DriverNext]_vars

\* The driver is a sequential program: it takes its next step whenever it
\* has one.
DriverFairSpec == DriverSpec /\ WF_vars(DriverNext)

\* The driver as a function, for a search of T threads on edges e: the
\* three perform_all_* routines and the do-while around them.
RECURSIVE PerformAllTwoOptSteps(_, _, _)
PerformAllTwoOptSteps(e, T, total) ==
  LET r == TwoOptStepOf(e, T, SymTwoOptRankLimitsOf(EdgesSize(e), T))
  IN  IF r.gain > 0
      THEN PerformAllTwoOptSteps(r.edges, T, (total + r.gain) % distance_mod)
      ELSE [edges |-> e, total_gain |-> total]

RECURSIVE PerformAllRelocateSteps(_, _, _)
PerformAllRelocateSteps(e, T, total) ==
  LET r == RelocateStepOf(e, T, RankLimitsOf(EdgesSize(e), T))
  IN  IF r.gain > 0
      THEN PerformAllRelocateSteps(r.edges, T, (total + r.gain) % distance_mod)
      ELSE [edges |-> e, total_gain |-> total]

RECURSIVE PerformAllOrOptSteps(_, _, _)
PerformAllOrOptSteps(e, T, total) ==
  LET r == OrOptStepOf(e, T, RankLimitsOf(EdgesSize(e), T))
  IN  IF r.gain > 0
      THEN PerformAllOrOptSteps(r.edges, T, (total + r.gain) % distance_mod)
      ELSE [edges |-> e, total_gain |-> total]

RECURSIVE DriverLoop(_, _)
DriverLoop(e, T) ==
  LET two_opt == PerformAllTwoOptSteps(e, T, 0)
      relocate == PerformAllRelocateSteps(two_opt.edges, T, 0)
      or_opt == PerformAllOrOptSteps(relocate.edges, T, 0)
  IN  IF DriverContinues(two_opt.total_gain, relocate.total_gain,
                         or_opt.total_gain)
      THEN DriverLoop(or_opt.edges, T)
      ELSE or_opt.edges

----------------------------------------------------------------------------
(* ThreadSpec: one step with its threads.  The main thread starts          *)
(* _nb_threads - 1 threads on look_up, runs look_up on the last range      *)
(* itself, joins the threads, then picks the best slot and applies the     *)
(* move.  A look_up advances by one edge_1_start at a time, and the        *)
(* look_ups that have been started advance in any order.                   *)

\* The three steps of a local_search.
StepNames == {"two_opt_step", "relocate_step", "or_opt_step"}

\* The limits a step hands to its look_ups.
LimitsOf(name) ==
  IF name = "two_opt_step" THEN _sym_two_opt_rank_limits ELSE _rank_limits

\* One turn of the outer for loop of the look_up of step `name`.
LookUpRow(name, e, edge_1_start, best) ==
  CASE name = "two_opt_step" ->
         TwoOptLookUp(e, edge_1_start, edge_1_start + 1, best)
    [] name = "relocate_step" ->
         RelocateLookUp(e, edge_1_start, edge_1_start + 1, best)
    [] name = "or_opt_step" ->
         OrOptLookUp(e, edge_1_start, edge_1_start + 1, best)

\* The size check of step `name`.
RefusesOf(name, e) ==
  CASE name = "two_opt_step" -> TwoOptRefuses(e)
    [] name = "relocate_step" -> RelocateRefuses(e)
    [] name = "or_opt_step" -> OrOptRefuses(e)

\* The part of step `name` after the join.
MoveOf(name, e, bests) ==
  CASE name = "two_opt_step" -> TwoOptMove(e, bests)
    [] name = "relocate_step" -> RelocateMove(e, bests)
    [] name = "or_opt_step" -> OrOptMove(e, bests)

\* Mutant of SlotOf: every look_up is handed the references to slot 0.
SlotOfFirst(k) == 0

\* std::ref(best_gains[i]), std::ref(best_edge_1_starts[i]),
\* std::ref(best_edge_2_starts[i]): the slot look_up k writes through.
SlotOf(k) == k

\* Mutant of ThreadDone: join() returns while the thread still runs.
ThreadDetached(k) == TRUE

\* t.join() returns: look_up k has left its outer for loop.
ThreadDone(k) == at_row[k] >= LimitsOf(running)[k + 1]

\* The size check, then the three vectors of _nb_threads slots.
step_entry ==
  /\ pc = "call"
  /\ \E name \in StepNames :
       IF RefusesOf(name, _edges)
       THEN /\ Called(name, Refused(_edges))
            /\ pc' = "returned"
            /\ UNCHANGED thread_vars
       ELSE /\ running' = name
            /\ best_vectors' = [k \in 0..(_nb_threads - 1) |-> NoMove]
            /\ at_row' = [k \in 0..(_nb_threads - 1) |-> LimitsOf(name)[k]]
            /\ threads_size' = 0
            /\ joined' = 0
            /\ pc' = "spawn"
            /\ UNCHANGED <<_edges, op, gain, old_edges, nb_reads,
                           move_edge_1_start, move_edge_2_start>>
  /\ UNCHANGED <<search_vars, tour_vars, driver_vars>>

\* for(i = 0; i < _nb_threads - 1; ++i) threads.emplace_back(look_up, ...):
\* one more thread, or the end of the loop.
start_thread ==
  /\ pc = "spawn"
  /\ IF threads_size < _nb_threads - 1
     THEN threads_size' = threads_size + 1 /\ pc' = pc
     ELSE pc' = "look_up" /\ UNCHANGED threads_size
  /\ UNCHANGED <<search_vars, tour_vars, driver_vars, running, joined, at_row,
                 best_vectors, _edges, op, gain, old_edges, nb_reads,
                 move_edge_1_start, move_edge_2_start>>

\* look_up k scans its next edge_1_start: it reads _edges and writes its
\* slot of the three vectors.
Scan(k) ==
  /\ at_row[k] < LimitsOf(running)[k + 1]
  /\ \E best \in {LookUpRow(running, _edges, at_row[k],
                            best_vectors[SlotOf(k)])} :
       best_vectors' = [best_vectors EXCEPT ![SlotOf(k)] = best]
  /\ at_row' = [at_row EXCEPT ![k] = @ + 1]

\* A started thread makes one turn of its look_up.
thread_look_up ==
  /\ running # "none"
  /\ \E k \in 0..(threads_size - 1) : Scan(k)
  /\ UNCHANGED <<search_vars, tour_vars, driver_vars, running, threads_size, joined, pc,
                 _edges, op, gain, old_edges, nb_reads, move_edge_1_start,
                 move_edge_2_start>>

\* The main thread's own look_up on the last range: one turn, or its end.
main_look_up ==
  /\ pc = "look_up"
  /\ IF at_row[_nb_threads - 1] < LimitsOf(running)[_nb_threads]
     THEN Scan(_nb_threads - 1) /\ pc' = pc
     ELSE pc' = "join" /\ UNCHANGED <<at_row, best_vectors>>
  /\ UNCHANGED <<search_vars, tour_vars, driver_vars, running, threads_size, joined,
                 _edges, op, gain, old_edges, nb_reads, move_edge_1_start,
                 move_edge_2_start>>

\* for(auto& t: threads) t.join(): the next thread is joined once it is
\* done, or the loop ends.
join ==
  /\ pc = "join"
  /\ IF joined < threads_size
     THEN ThreadDone(joined) /\ joined' = joined + 1 /\ pc' = pc
     ELSE pc' = "reduce" /\ UNCHANGED joined
  /\ UNCHANGED <<search_vars, tour_vars, driver_vars, running, threads_size, at_row,
                 best_vectors, _edges, op, gain, old_edges, nb_reads,
                 move_edge_1_start, move_edge_2_start>>

\* The rest of the step: best_rank, the writes to _edges and the return.
reduce_and_apply ==
  /\ pc = "reduce"
  /\ \E r \in {MoveOf(running, _edges, best_vectors)} : Called(running, r)
  /\ pc' = "returned"
  /\ UNCHANGED <<search_vars, tour_vars, driver_vars, thread_vars>>

ThreadInit == pc = "call" /\ InitSearch

ThreadNext ==
  \/ step_entry
  \/ start_thread
  \/ thread_look_up
  \/ main_look_up
  \/ join
  \/ reduce_and_apply

ThreadSpec == ThreadInit /\ [][ThreadNext]_vars

----------------------------------------------------------------------------
(* What the claims speak of: cycles, tour costs and the candidate moves of *)
(* the three neighbourhoods, in plain integers.                            *)

\* The node reached from `node` after k applications of e.
RECURSIVE After(_, _, _)
After(e, node, k) == IF k = 0 THEN node ELSE After(e, e[node], k - 1)

\* e maps 0..n-1 one-to-one onto itself.
IsPermutation(e) ==
  /\ \A i \in DOMAIN e : e[i] \in DOMAIN e
  /\ \A i, j \in DOMAIN e : i # j => e[i] # e[j]

\* Following e from node 0 visits every node before it is back at 0.
IsSingleCycle(e) ==
  /\ IsPermutation(e)
  /\ { After(e, 0, k) : k \in 0..(EdgesSize(e) - 1) } = DOMAIN e

\* The cost of the closed tour e: every edge i -> e[i] once.
RECURSIVE CostUpTo(_, _)
CostUpTo(e, i) ==
  IF i < 0 THEN 0 ELSE Matrix(i, e[i]) + CostUpTo(e, i - 1)

TourCost(e) == CostUpTo(e, EdgesSize(e) - 1)

\* 2-opt: the pairs a < b whose edges a -> e[a] and b -> e[b] share no node.
TwoOptCandidates(e) ==
  { c \in (DOMAIN e) \X (DOMAIN e) :
      c[1] < c[2] /\ {c[1], e[c[1]]} \cap {c[2], e[c[2]]} = {} }

TwoOptMoveGain(e, c) ==
  LET a == c[1]
      b == c[2]
  IN  Matrix(a, e[a]) + Matrix(b, e[b]) - Matrix(a, b) - Matrix(e[a], e[b])

\* Relocate: node v = e[u] is moved between p and e[p], p neither u nor v.
RelocateCandidates(e) ==
  { c \in (DOMAIN e) \X (DOMAIN e) : c[2] \notin {c[1], e[c[1]]} }

RelocateMoveGain(e, c) ==
  LET u == c[1]
      v == e[u]
      w == e[v]
      pp == c[2]
      q == e[pp]
  IN  Matrix(u, v) + Matrix(v, w) + Matrix(pp, q)
      - Matrix(u, w) - Matrix(pp, v) - Matrix(v, q)

\* Or-opt: the pair v = e[u], w = e[v] is moved between p and e[p], p none
\* of u, v, w.
OrOptCandidates(e) ==
  { c \in (DOMAIN e) \X (DOMAIN e) :
      c[2] \notin {c[1], e[c[1]], e[e[c[1]]]} }

OrOptMoveGain(e, c) ==
  LET u == c[1]
      v == e[u]
      w == e[v]
      x == e[w]
      pp == c[2]
      q == e[pp]
  IN  Matrix(u, v) + Matrix(w, x) + Matrix(pp, q)
      - Matrix(u, x) - Matrix(pp, v) - Matrix(w, q)

\* The gains of all candidate moves of the step `name` on e.
CandidateGains(name, e) ==
  CASE name = "two_opt_step" ->
         { TwoOptMoveGain(e, c) : c \in TwoOptCandidates(e) }
    [] name = "relocate_step" ->
         { RelocateMoveGain(e, c) : c \in RelocateCandidates(e) }
    [] name = "or_opt_step" ->
         { OrOptMoveGain(e, c) : c \in OrOptCandidates(e) }
    [] OTHER -> {}

\* The largest candidate gain, 0 when no candidate gains.
BestCandidateGain(name, e) == Largest(CandidateGains(name, e) \cup {0})

\* The pair the last step selected is a candidate of that step on e with gain g.
SelectedGains(name, e, g) ==
  LET c == <<move_edge_1_start, move_edge_2_start>>
  IN  CASE name = "two_opt_step" ->
             c \in TwoOptCandidates(e) /\ TwoOptMoveGain(e, c) = g
        [] name = "relocate_step" ->
             c \in RelocateCandidates(e) /\ RelocateMoveGain(e, c) = g
        [] name = "or_opt_step" ->
             c \in OrOptCandidates(e) /\ OrOptMoveGain(e, c) = g
        [] OTHER -> FALSE

----------------------------------------------------------------------------
(* Claims about single steps, checked under Spec.                          *)

\* C1: after any sequence of the three steps, in any order and for any
\* thread count, _edges is a permutation of 0..N-1 that is one cycle of
\* length N.
C1_SingleCycle == IsSingleCycle(_edges)

\* Several threads have applied a move to a tour an earlier move left.
C1_Witness ==
  /\ op = "or_opt_step" /\ gain > 0 /\ _nb_threads > 1
  /\ old_edges # EdgesOf(tour, Len(tour)).edges

\* C2: a step leaves a tour whose closed-tour cost is the cost before the
\* call minus the gain the call returned.
C2_CostDropsByGain ==
  op \in StepNames => TourCost(_edges) = TourCost(old_edges) - gain

C2_Witness == op = "or_opt_step" /\ gain > 0 /\ EdgesSize(_edges) >= 5

\* C3: a step returns a positive gain exactly when some candidate move of
\* its neighbourhood on the tour it found has a positive gain, whatever
\* the thread count.
C3_GainIffCandidate ==
  op \in StepNames =>
    (gain > 0 <=> \E g \in CandidateGains(op, old_edges) : g > 0)

\* A relocate found by several threads whose ranges have different lengths.
C3_Witness ==
  /\ op = "relocate_step" /\ gain > 0
  /\ _nb_threads > 1 /\ EdgesSize(_edges) % _nb_threads # 0

\* C4: the gain a step returns is the largest gain of its candidate moves
\* on the tour it found (0 when none gains), and the move applied is a
\* candidate with that gain.
C4_BestMove ==
  op \in StepNames =>
    /\ gain = BestCandidateGain(op, old_edges)
    /\ gain > 0 =>
         /\ SelectedGains(op, old_edges, gain)
         /\ TourCost(_edges) = TourCost(old_edges) - BestCandidateGain(op, old_edges)

\* A 2-opt move chosen among candidates of different positive gains.
C4_Witness ==
  /\ op = "two_opt_step" /\ gain > 0
  /\ \E g \in CandidateGains(op, old_edges) : g > 0 /\ g < gain

\* C9: a step that returns 0 leaves _edges as it found it; two_opt_step and
\* or_opt_step on fewer than 4 nodes and relocate_step on fewer than 3
\* return 0 without a read or a write of _edges.
C9_ZeroGainNoChange ==
  op \in StepNames =>
    /\ gain = 0 => _edges = old_edges
    /\ (op \in {"two_opt_step", "or_opt_step"} /\ EdgesSize(old_edges) < 4) =>
         gain = 0 /\ nb_reads = 0 /\ _edges = old_edges
    /\ (op = "relocate_step" /\ EdgesSize(old_edges) < 3) =>
         gain = 0 /\ nb_reads = 0 /\ _edges = old_edges

\* or_opt_step has refused a tour of three nodes.
C9_Witness ==
  op = "or_opt_step" /\ EdgesSize(old_edges) = 3 /\ gain = 0 /\ nb_reads = 0

----------------------------------------------------------------------------
(* Claims about the driver, checked under DriverSpec and DriverFairSpec.   *)

\* C5: the driver's do-while (all 2-opt steps, then all relocate steps,
\* then all or-opt steps, repeated while a round gained) eventually exits.
C5_DriverExits == <>(pc = "done")

\* The first run has exited after three rounds.
C5_Witness == pc = "done" /\ run = 1 /\ rounds = 3

\* C6: when the driver's loop has exited, no 2-opt move, no relocate move
\* and no or-opt move on the tour has a positive gain.
C6_LocalMinimum ==
  pc = "done" => \A name \in StepNames : BestCandidateGain(name, _edges) = 0

\* The loop has exited on a tour that its moves produced.
C6_Witness == pc = "done" /\ run = 1 /\ run_gain > 0 /\ EdgesSize(_edges) >= 5

\* C7: the driver's loop run a second time on the tour it produced gains
\* nothing in any of the three routines and leaves every entry of _edges.
C7_SecondRunIdle ==
  (pc = "done" /\ run = 2) =>
    /\ rounds = 1
    /\ run_gain = 0
    /\ sym_two_opt_gain = 0 /\ sym_relocate_gain = 0 /\ sym_or_opt_gain = 0
    /\ _edges = first_output

\* The second run has ended on a tour the first run had improved.
C7_Witness ==
  /\ pc = "done" /\ run = 2
  /\ first_output # EdgesOf(tour, Len(tour)).edges

\* C8: for one matrix and one initial tour, the cost of the tour on which
\* the driver's loop exits is the same for every thread count: it is the
\* cost reached with a single thread.
C8_CostForAnyThreadCount ==
  (pc = "done" /\ run = 1) =>
    TourCost(_edges) = TourCost(DriverLoop(EdgesOf(tour, Len(tour)).edges, 1))

\* Several threads have brought the tour to a lower cost.
C8_Witness ==
  pc = "done" /\ run = 1 /\ _nb_threads > 2 /\ run_gain > 0

----------------------------------------------------------------------------
(* Claims about construction, checked under CtorSpec.                      *)

\* Some id occurs twice in t.
HasDuplicate(t) == \E i, j \in 1..Len(t) : i # j /\ t[i] = t[j]

\* C10: constructing a local_search from a tour whose length differs from
\* the matrix size, or that holds an id twice, ends in a failure and no
\* object is built.
C10_InvalidTourFails ==
  (pc # "ctor" /\ (Len(tour) # Len(locations) \/ HasDuplicate(tour))) =>
    pc = "failed"

\* C11: a tour holding an id that is no index of the matrix, at whatever
\* position (the first and the last included), makes the constructor fail.
C11_OutOfRangeFails ==
  (pc # "ctor" /\ ~InRange(tour, Len(locations))) => pc = "failed"

\* The constructor has failed on a tour of several ids whose last id alone
\* is out of range.
C11_Witness ==
  /\ pc = "failed"
  /\ Len(tour) > 1
  /\ tour[Len(tour)] >= Len(locations)
  /\ InRange(SubSeq(tour, 1, Len(tour) - 1), Len(locations))

----------------------------------------------------------------------------
(* More claims about single steps, checked under Spec.                     *)

\* The 2-opt candidates of e whose gain is the largest candidate gain.
TwoOptBestCandidates(e) ==
  { c \in TwoOptCandidates(e) :
      TwoOptMoveGain(e, c) = BestCandidateGain("two_opt_step", e) }

\* Pair c comes before pair d, or is d: smaller first entry, then smaller
\* second entry.
LexLeq(c, d) == c[1] < d[1] \/ (c[1] = d[1] /\ c[2] <= d[2])

\* C12: the pair (a, b) of a move two_opt_step applies is, for every thread
\* count, the lexicographically smallest of the admissible pairs a < b
\* whose gain is the largest one.
C12_FirstBestPair ==
  (op = "two_opt_step" /\ gain > 0) =>
    LET c == <<move_edge_1_start, move_edge_2_start>>
    IN  /\ c \in TwoOptBestCandidates(old_edges)
        /\ \A d \in TwoOptBestCandidates(old_edges) : LexLeq(c, d)

\* A 2-opt move applied by several threads, where a pair of the same
\* largest gain starts in the range of a later thread than the pair applied.
C12_Witness ==
  /\ op = "two_opt_step" /\ gain > 0 /\ _nb_threads > 1
  /\ \E d \in TwoOptBestCandidates(old_edges) :
       \E k \in 1..(_nb_threads - 1) :
         /\ move_edge_1_start < _sym_two_opt_rank_limits[k]
         /\ d[1] >= _sym_two_opt_rank_limits[k]

----------------------------------------------------------------------------
(* Claims about the partitions, checked under CtorSpec.                    *)

\* limits has the entries 0..T, starts at 0, ends at n and never decreases.
IsPartitionOf(limits, T, n) ==
  /\ DOMAIN limits = 0..T
  /\ limits[0] = 0
  /\ limits[T] = n
  /\ \A i \in 0..(T - 1) : limits[i] <= limits[i + 1]

\* C13: after construction with t >= 1 requested threads and a tour of N
\* nodes, _nb_threads is min(t, N), and _rank_limits and
\* _sym_two_opt_rank_limits both have T + 1 entries, the first 0, the last
\* N, in nondecreasing order.
C13_LimitsShape ==
  (pc = "built" /\ Len(tour) = Len(locations)) =>
    /\ _nb_threads = Min(nb_threads, Len(locations))
    /\ IsPartitionOf(_rank_limits, _nb_threads, Len(locations))
    /\ IsPartitionOf(_sym_two_opt_rank_limits, _nb_threads, Len(locations))

\* More threads were requested than the tour has nodes, and the tour has
\* enough nodes for ranges of different lengths.
C13_Witness ==
  /\ pc = "built" /\ Len(tour) = Len(locations)
  /\ nb_threads > Len(locations) /\ Len(locations) >= 5
  /\ _nb_threads = Len(locations)

----------------------------------------------------------------------------
(* The crossed square, checked under Spec.                                 *)

\* The first step on the crossed square was two_opt_step, on the tour
\* 0 -> 1 -> 2 -> 3 -> 0.
CrossedSquareTwoOpt ==
  /\ locations = << <<0, 0>>, <<1, 1>>, <<1, 0>>, <<0, 1>> >>
  /\ tour = <<0, 1, 2, 3>>
  /\ op = "two_opt_step"
  /\ old_edges = EdgesOf(tour, 4).edges

\* C14, as stated: on the crossed square two_opt_step returns a gain > 0 on
\* the pair (0, 2), leaves the cycle 0 -> 2 -> 1 -> 3 -> 0, and the tour
\* costs 4.
C14_CrossedSquareGains ==
  CrossedSquareTwoOpt =>
    /\ gain > 0
    /\ move_edge_1_start = 0 /\ move_edge_2_start = 2
    /\ _edges = (0 :> 2 @@ 2 :> 1 @@ 1 :> 3 @@ 3 :> 0)
    /\ TourCost(_edges) = 4

\* C14, amended: the diagonals of the unit square round to 1 like its
\* sides, so on the crossed square two_opt_step returns 0 and leaves the
\* tour 0 -> 1 -> 2 -> 3 -> 0, whose cost is 4.
C14_CrossedSquareStays ==
  CrossedSquareTwoOpt =>
    /\ Matrix(0, 1) = 1 /\ Matrix(2, 3) = 1
    /\ gain = 0
    /\ _edges = (0 :> 1 @@ 1 :> 2 @@ 2 :> 3 @@ 3 :> 0)
    /\ TourCost(_edges) = 4

\* two_opt_step has run on the crossed square, with one thread per range
\* of the partition.
C14_Witness == CrossedSquareTwoOpt /\ nb_reads > 0 /\ _nb_threads = 2

----------------------------------------------------------------------------
(* Three nodes, checked under Spec.                                        *)

\* C15: on a cycle of three nodes relocate_step returns 0, each node has
\* one relocate candidate and its gain is exactly 0, and two_opt_step and
\* or_opt_step return 0.
C15_ThreeNodes ==
  (op \in StepNames /\ EdgesSize(old_edges) = 3) =>
    /\ gain = 0
    /\ \A u \in DOMAIN old_edges :
         Cardinality({ c \in RelocateCandidates(old_edges) : c[1] = u }) = 1
    /\ \A c \in RelocateCandidates(old_edges) :
         RelocateMoveGain(old_edges, c) = 0

\* relocate_step has looked through the cycle 0 -> 2 -> 1 -> 0 over three
\* locations, the first and third in different columns, the first and
\* second in different rows.
C15_Witness ==
  /\ op = "relocate_step" /\ EdgesSize(old_edges) = 3 /\ nb_reads > 0
  /\ old_edges[0] = 2
  /\ locations[1][1] # locations[3][1] /\ locations[1][2] # locations[2][2]

----------------------------------------------------------------------------
(* Claims about the threads of a step, checked under ThreadSpec.           *)

\* look_up k has been started and has not left its outer for loop.
Searching(k) ==
  /\ running # "none"
  /\ k < threads_size \/ (k = _nb_threads - 1 /\ pc = "look_up")
  /\ at_row[k] < LimitsOf(running)[k + 1]

\* C16: within a step no entry of _edges is written while a look_up, of a
\* spawned thread or of the main thread, is still searching: every write
\* is made by the main thread after it has joined all the threads.
C16_WritesAfterJoin ==
  [][_edges' # _edges =>
       /\ pc = "reduce"
       /\ joined = _nb_threads - 1
       /\ \A k \in 0..(_nb_threads - 1) : ~Searching(k)]_vars

\* A step of three or more threads has written its move to _edges.
C16_Witness ==
  pc = "returned" /\ _edges # old_edges /\ threads_size >= 2 /\ joined >= 2

\* step `name` as one function of the tour, the thread count and the limits.
StepOf(name, e, T, limits) ==
  CASE name = "two_opt_step" -> TwoOptStepOf(e, T, limits)
    [] name = "relocate_step" -> RelocateStepOf(e, T, limits)
    [] name = "or_opt_step" -> OrOptStepOf(e, T, limits)

\* C17: a look_up writes slot k of the three vectors for its own k only,
\* and the move a step chooses and the tour it leaves are the same however
\* the look_ups interleave: they are a function of the matrix, the tour
\* before the call and the thread count.
C17_OwnSlotSameMove ==
  /\ [][\A k \in DOMAIN best_vectors :
          (k \in DOMAIN best_vectors' /\ best_vectors'[k] # best_vectors[k]) =>
            at_row'[k] = at_row[k] + 1]_vars
  /\ [](pc = "returned" =>
          LET r == StepOf(op, old_edges, _nb_threads, LimitsOf(op))
          IN  /\ gain = r.gain
              /\ _edges = r.edges
              /\ gain > 0 => /\ move_edge_1_start = r.edge_1_start
                             /\ move_edge_2_start = r.edge_2_start)

\* A step has returned a move after two of its look_ups had found a gain.
C17_Witness ==
  /\ pc = "returned" /\ gain > 0
  /\ \E j, k \in DOMAIN best_vectors :
       j # k /\ best_vectors[j].best_gain > 0 /\ best_vectors[k].best_gain > 0

----------------------------------------------------------------------------
(* More claims about the partitions, checked under CtorSpec.               *)

\* C18: with q = N div T and r = N mod T, range k of _rank_limits has
\* length q + 1 for k < r and q otherwise, and every index of 0..N-1 lies
\* in exactly one range [limits[k], limits[k+1]).
C18_EvenRanges ==
  pc = "built" =>
    LET N == Len(locations)
        T == _nb_threads
        q == N \div T
        r == N % T
    IN  /\ \A k \in 0..(T - 1) :
             _rank_limits[k + 1] - _rank_limits[k] =
               IF k < r THEN q + 1 ELSE q
        /\ \A i \in 0..(N - 1) :
             Cardinality({ k \in 0..(T - 1) :
                             _rank_limits[k] <= i /\ i < _rank_limits[k + 1] }) = 1

\* Five nodes split among three threads: two ranges of 2, one of 1.
C18_Witness ==
  /\ pc = "built" /\ Len(locations) = 5 /\ _nb_threads = 3
  /\ _rank_limits[1] = 2 /\ _rank_limits[2] = 4

\* The work of the 2-opt rows in plain integers.  FallingWork is
\* W(i) = N - 3 - i; RowWork is N - 3 for row 0 and N - 2 - i for the rows
\* 1..N-2.
FallingWork(N, i) == IF i < N - 1 THEN N - 3 - i ELSE 0

RowWork(N, i) == IF i = 0 THEN N - 3 ELSE IF i < N - 1 THEN N - 2 - i ELSE 0

RECURSIVE FallingCumulated(_, _)
FallingCumulated(N, i) ==
  IF i < 0 THEN 0 ELSE FallingWork(N, i) + FallingCumulated(N, i - 1)

RECURSIVE RowCumulated(_, _)
RowCumulated(N, i) ==
  IF i < 0 THEN 0 ELSE RowWork(N, i) + RowCumulated(N, i - 1)

\* S = N (N - 3) / 2
TotalWork(N) == (N * (N - 3)) \div 2

\* C19, as stated: for T > 1 boundary k (1 <= k < T) of the 2-opt partition
\* is one plus the smallest index r with C(r) >= k * floor(S / T), C the
\* cumulated sums of W(i) = N - 3 - i.
C19_BoundaryOfFallingWork ==
  (pc = "built" /\ _nb_threads > 1 /\ Len(locations) >= 4) =>
    LET N == Len(locations)
        T == _nb_threads
    IN  \A k \in 1..(T - 1) :
          LET r == _sym_two_opt_rank_limits[k] - 1
              bound == k * (TotalWork(N) \div T)
          IN  /\ r >= 0
              /\ FallingCumulated(N, r) >= bound
              /\ \A j \in 0..(r - 1) : FallingCumulated(N, j) < bound

\* C19, amended: for T > 1 and N >= 3 boundary k is one plus the smallest
\* index r, from boundary k - 1 on (from 0 for k = 1), with
\* C(r) >= k * floor(S / T), C the cumulated sums of W(0) = N - 3 and
\* W(i) = N - 2 - i for 1 <= i <= N - 2.
C19_BoundaryOfRowWork ==
  (pc = "built" /\ _nb_threads > 1 /\ Len(locations) >= 3) =>
    LET N == Len(locations)
        T == _nb_threads
    IN  \A k \in 1..(T - 1) :
          LET r == _sym_two_opt_rank_limits[k] - 1
              from == IF k = 1 THEN 0 ELSE _sym_two_opt_rank_limits[k - 1]
              bound == k * (TotalWork(N) \div T)
          IN  /\ r >= from
              /\ RowCumulated(N, r) >= bound
              /\ \A j \in from..(r - 1) : RowCumulated(N, j) < bound

\* Six nodes and three threads: the second boundary is 2, where the
\* cumulated work 3 + 3 reaches 2 * floor(9 / 3).
C19_Witness ==
  /\ pc = "built" /\ Len(locations) = 6 /\ _nb_threads = 3
  /\ _sym_two_opt_rank_limits = (0 :> 0 @@ 1 :> 1 @@ 2 :> 2 @@ 3 :> 6)

----------------------------------------------------------------------------
(* The pairs a 2-opt step evaluates, checked under ThreadSpec.             *)

\* The pairs all the look_ups of the step evaluated, slot after slot.
RECURSIVE EvaluatedUpTo(_)
EvaluatedUpTo(k) ==
  IF k < 0 THEN << >> ELSE EvaluatedUpTo(k - 1) \o best_vectors[k].evaluated

AllEvaluated == EvaluatedUpTo(_nb_threads - 1)

\* C20: in a two_opt_step on N >= 4 nodes the look_ups together evaluate
\* every pair of tour edges that share no node exactly once and no pair of
\* edges that share a node: N (N - 3) / 2 gains, whatever the tour and the
\* thread count.
C20_EachPairOnce ==
  (pc = "returned" /\ running = "two_opt_step" /\ op = "two_opt_step") =>
    LET N == EdgesSize(old_edges)
    IN  /\ \A c \in TwoOptCandidates(old_edges) :
             Cardinality({ i \in 1..Len(AllEvaluated) : AllEvaluated[i] = c }) = 1
        /\ \A i \in 1..Len(AllEvaluated) :
             AllEvaluated[i] \in TwoOptCandidates(old_edges)
        /\ Len(AllEvaluated) = (N * (N - 3)) \div 2

\* A two_opt_step of three look_ups on six nodes in another order than
\* 0, 1, ..., 5 has returned.
C20_Witness ==
  /\ pc = "returned" /\ running = "two_opt_step" /\ op = "two_opt_step"
  /\ _nb_threads = 3 /\ EdgesSize(old_edges) = 6
  /\ old_edges[0] # 1
  /\ Len(AllEvaluated) = 9

----------------------------------------------------------------------------
(* What the moves write, checked under Spec.                               *)

\* The number of edges of e from node `from` to node `to`.
Distance(e, from, to) ==
  CHOOSE d \in 0..EdgesSize(e) :
    After(e, from, d) = to /\ \A j \in 0..(d - 1) : After(e, from, j) # to

\* The nodes of the path of e that leads from `from` to `to`, both included.
PathNodes(e, from, to) ==
  { After(e, from, k) : k \in 0..Distance(e, from, to) }

\* C21: when two_opt_step applies the move (a, b), with e1e and e2e the
\* successors of a and b before the move, then afterwards a is followed by
\* b and e1e by e2e, every other node of the old path e1e..b is followed by
\* the node that preceded it on that path, and every node that is neither
\* a nor on the path keeps its successor.
C21_TwoOptReversesPath ==
  (op = "two_opt_step" /\ gain > 0) =>
    LET a == move_edge_1_start
        b == move_edge_2_start
        e1e == old_edges[a]
        e2e == old_edges[b]
        path == PathNodes(old_edges, e1e, b)
    IN  /\ _edges[a] = b
        /\ _edges[e1e] = e2e
        /\ \A y \in path \ {e1e} :
             \E z \in path : old_edges[z] = y /\ _edges[y] = z
        /\ \A y \in DOMAIN old_edges \ (path \cup {a}) :
             _edges[y] = old_edges[y]

\* A 2-opt move has reversed a path of three or more nodes and left a node
\* outside it untouched.
C21_Witness ==
  /\ op = "two_opt_step" /\ gain > 0
  /\ Cardinality(PathNodes(old_edges, old_edges[move_edge_1_start],
                           move_edge_2_start)) >= 3
  /\ Cardinality(PathNodes(old_edges, old_edges[move_edge_1_start],
                           move_edge_2_start)) + 1 < EdgesSize(old_edges)

\* C22: when or_opt_step applies the move (u, p), with v, w, x the three
\* nodes after u and q the node after p before the move, then afterwards
\* u -> x, p -> v, w -> q and v -> w, and no other entry has changed; also
\* when p = x and when q = u.
C22_OrOptWrites ==
  (op = "or_opt_step" /\ gain > 0) =>
    LET u == move_edge_1_start
        pp == move_edge_2_start
        v == old_edges[u]
        w == old_edges[v]
        x == old_edges[w]
        q == old_edges[pp]
    IN  /\ _edges[u] = x
        /\ _edges[pp] = v
        /\ _edges[w] = q
        /\ _edges[v] = w
        /\ \A y \in DOMAIN old_edges \ {u, pp, w} : _edges[y] = old_edges[y]

\* An or-opt move was applied with p = x and q = u: the pair is put
\* behind the only other node of the tour but u.
C22_Witness ==
  /\ op = "or_opt_step" /\ gain > 0
  /\ move_edge_2_start = old_edges[old_edges[old_edges[move_edge_1_start]]]
  /\ old_edges[move_edge_2_start] = move_edge_1_start

----------------------------------------------------------------------------
(* Construction and get_tour, checked under CtorSpec.                      *)

\* C23: construction from a sequence of N distinct ids makes every id of
\* the sequence point to the next one, the last to the first; get_tour on
\* the first id right after construction returns the sequence, and
\* get_tour on any id returns the N elements of the sequence rotated to
\* start at that id.
C23_GetTourRotates ==
  (pc # "ctor" /\ Len(tour) = Len(locations) /\ ~HasDuplicate(tour)
     /\ InRange(tour, Len(locations))) =>
    LET N == Len(locations)
    IN  /\ pc \in {"built", "toured"}
        /\ \A k \in 1..N : _edges[tour[k]] = tour[(k % N) + 1]
        /\ pc = "toured" =>
             /\ Len(got_tour) = N
             /\ \E j \in 1..N :
                  /\ tour[j] = first_index
                  /\ \A i \in 1..N : got_tour[i] = tour[((j + i - 2) % N) + 1]
             /\ first_index = tour[1] => got_tour = tour

\* get_tour has returned a rotation that starts inside a sequence of five
\* or more ids that is not in increasing order.
C23_Witness ==
  /\ pc = "toured" /\ Len(tour) = Len(locations) /\ ~HasDuplicate(tour)
  /\ Len(tour) >= 5 /\ tour[2] # 1
  /\ first_index = tour[3]
  /\ got_tour[Len(got_tour)] = tour[2]

----------------------------------------------------------------------------
(* The matrix entries the look_ups read, checked under ThreadSpec.         *)

\* The largest entry of the matrix off its diagonal.
LargestDistance ==
  Largest({ _matrix[i][j] : i, j \in DOMAIN _matrix } \ { _matrix[0][0] })

\* The smallest value a sum of up to three entries can take, as a
\* distance_t, when one of them is the diagonal value.
SmallestWithDiagonal ==
  Min(_matrix[0][0],
      Min((2 * _matrix[0][0]) % distance_mod,
          (3 * _matrix[0][0]) % distance_mod))

\* C24: on a single-cycle tour no cost that two_opt_step (N >= 4),
\* relocate_step (N >= 3) or or_opt_step (N >= 4) computes reads a diagonal
\* entry of the matrix: every cost a look_up compares is a sum of at most
\* three off-diagonal entries, below every sum that holds the diagonal
\* value.
C24_NoDiagonalRead ==
  running # "none" =>
    /\ 3 * LargestDistance < SmallestWithDiagonal
    /\ \A k \in DOMAIN best_vectors :
         best_vectors[k].largest_cost <= 3 * LargestDistance

\* relocate_step has returned from five or more nodes after each of its
\* look_ups, two at least, compared costs.
C24_Witness ==
  /\ pc = "returned" /\ op = "relocate_step" /\ running = "relocate_step"
  /\ EdgesSize(old_edges) >= 5 /\ _nb_threads >= 2
  /\ \A k \in DOMAIN best_vectors : best_vectors[k].largest_cost > 0

----------------------------------------------------------------------------
(* The moves of the driver for different thread counts, checked under      *)
(* DriverSpec.                                                             *)

\* The candidates of step `name` on e, and the gain of one of them.
CandidatesOf(name, e) ==
  CASE name = "two_opt_step" -> TwoOptCandidates(e)
    [] name = "relocate_step" -> RelocateCandidates(e)
    [] name = "or_opt_step" -> OrOptCandidates(e)

MoveGainOf(name, e, c) ==
  CASE name = "two_opt_step" -> TwoOptMoveGain(e, c)
    [] name = "relocate_step" -> RelocateMoveGain(e, c)
    [] name = "or_opt_step" -> OrOptMoveGain(e, c)

\* The place of candidate c among the candidates of its edge_1_start in
\* the order the look_up meets them: by index for 2-opt, along the tour
\* from the first edge_2_start for relocate and or-opt.
ScanPlace(name, e, c) ==
  CASE name = "two_opt_step" -> c[2]
    [] name = "relocate_step" -> Distance(e, e[e[c[1]]], c[2])
    [] name = "or_opt_step" -> Distance(e, e[e[e[c[1]]]], c[2])

\* The one range of a single thread.
WholeRange(e) == (0 :> 0 @@ 1 :> EdgesSize(e))

\* C25: the move a step applies does not depend on the thread count: it is
\* the move a single thread selects, the candidate of largest gain with
\* the smallest edge_1_start and, for that edge_1_start, the first
\* edge_2_start in scan order; so the driver ends, for every thread count,
\* with the successor array it ends with for one thread.
C25_SameMoveForAnyThreadCount ==
  /\ (op \in StepNames /\ gain > 0) =>
       LET single == StepOf(op, old_edges, 1, WholeRange(old_edges))
           c == <<move_edge_1_start, move_edge_2_start>>
           best == { d \in CandidatesOf(op, old_edges) :
                       MoveGainOf(op, old_edges, d) = gain }
       IN  /\ c = <<single.edge_1_start, single.edge_2_start>>
           /\ _edges = single.edges
           /\ c \in best
           /\ \A d \in best :
                \/ c[1] < d[1]
                \/ /\ c[1] = d[1]
                   /\ ScanPlace(op, old_edges, c) <= ScanPlace(op, old_edges, d)
  /\ (pc = "done" /\ run = 1) =>
       _edges = DriverLoop(EdgesOf(tour, Len(tour)).edges, 1)

\* Several threads have applied a relocate move while a candidate of the
\* same gain started in the range of a later thread than the move applied.
C25_Witness ==
  /\ op = "relocate_step" /\ gain > 0 /\ _nb_threads > 1
  /\ pc # "done"
  /\ \E d \in RelocateCandidates(old_edges) :
       /\ RelocateMoveGain(old_edges, d) = gain
       /\ \E k \in 1..(_nb_threads - 1) :
            move_edge_1_start < _rank_limits[k] /\ d[1] >= _rank_limits[k]

----------------------------------------------------------------------------
(* The reads of the 2-opt partition loop, checked under CtorSpec.          *)

\* The ranks at which the inner while loop reads cumulated_lookups while it
\* looks for boundary k: from the rank the previous turn left to the
\* separating rank, one below the boundary pushed.
RanksRead(limits, k) ==
  (IF k = 1 THEN 0 ELSE limits[k - 1])..(limits[k] - 1)

\* C26: for N >= 3 and 2 <= T <= N every rank at which the constructor
\* reads cumulated_lookups is at most N - 2, the interior boundaries of the
\* 2-opt partition are strictly increasing and smaller than N, and so the
\* outer range of every worker is non-empty.
C26_PartitionReadsInside ==
  (pc = "built" /\ EdgesSize(_edges) >= 3
     /\ 2 <= _nb_threads /\ _nb_threads <= EdgesSize(_edges)) =>
    LET N == EdgesSize(_edges)
        limits == _sym_two_opt_rank_limits
    IN  /\ DOMAIN limits = 0..(_nb_threads)
        /\ \A k \in 1..(_nb_threads - 1) :
             /\ RanksRead(limits, k) # {}
             /\ \A rank \in RanksRead(limits, k) : rank <= N - 2
             /\ limits[k - 1] < limits[k]
             /\ limits[k] < N
        /\ \A k \in 1.._nb_threads : limits[k - 1] < limits[k]

\* A search of six edges has been built for as many threads as edges, the
\* last interior boundary reading the last element of the vector.
C26_Witness ==
  /\ pc = "built" /\ EdgesSize(_edges) = 6 /\ _nb_threads = 6
  /\ _sym_two_opt_rank_limits[5] - 1 = EdgesSize(_edges) - 2

====
